---- MODULE Spec2Model ----
(***************************************************************************)
(* A model of the VASCO calibration session: the main window's handlers    *)
(* (mainwindow.py) driving a matcher that is either a Matchmaker           *)
(* (unpaired) or a Counselor (paired, counselor.py), over a catalogue and  *)
(* a sensor dot collection that each carry a validity mask.                *)
(*                                                                         *)
(* Sky geometry is one-dimensional here: a catalogue star sits at an       *)
(* integer sky position, a sensor dot at an integer pixel, the projection  *)
(* shifts pixels by its parameter, the observation time shifts the sky,    *)
(* the spherical distance is the absolute difference, and the disk has the *)
(* zenith at its centre.                                                   *)
(*                                                                         *)
(* Specifications: Spec is the session; SpecMasks the session's loading,   *)
(* masking, resetting and pairing; SpecParams the projection constants     *)
(* (edit, export, import, minimize); SpecSmoother the handlers that        *)
(* rebuild the smoothers; SpecCounselor a Counselor under its mask calls;  *)
(* SpecCalls a Counselor asked for errors and corrections; SpecExport the  *)
(* session with the export of the corrected meteor; SpecPlots the session  *)
(* with its sky plots followed.                                            *)
(***************************************************************************)
EXTENDS Integers, Sequences, FiniteSets, TLC

VARIABLES matcher, catalogue, sensor_data, projection, time, smoother,
          handler, raised,
          widgets, blocked, exported, hs_bandwidth, magnitude_smoother,
          returned, document, w_input, plots

vars == <<matcher, catalogue, sensor_data, projection, time, smoother,
          handler, raised, widgets, blocked, exported, hs_bandwidth,
          magnitude_smoother, returned, document, w_input, plots>>

(* the parameter widgets and their signal block, the exported constants    *)
(* file, the bandwidth slider                                              *)
inputs == <<widgets, blocked, exported, hs_bandwidth>>

(* Bounds of the model *)
MaxStars == 2
MaxDots == 2
MaxShift == 1
MaxLimit == 2
MaxIter == 1
MaxSlider == 1
MaxExponent == 2

(* projection parameter values, observation times, mask limits *)
Params == 0..MaxShift
Times == {0, 1}
Limits == 0..MaxLimit

Abs(n) == IF n < 0 THEN -n ELSE n

RECURSIVE Pow2(_)

(* A distance larger than any limit: no star (dot) to be near to. *)
Far == MaxStars + MaxDots + MaxShift + MaxLimit + 2

(* 2^n *)
Pow2(n) == IF n <= 0 THEN 1 ELSE 2 * Pow2(n - 1)

(* A pixel so far from every dot that every kernel weight vanishes there. *)
Remote == 2 * Far + (MaxExponent + 1) * Pow2(MaxSlider)

(***************************************************************************)
(* Input files                                                             *)
(***************************************************************************)

(* The catalogue file with n stars: position and visual magnitude. *)
CatalogueFile(n) == [i \in 1..n |-> [pos |-> i, vmag |-> 1 + (i % 2)]]

(* The sighting file with n dots (listed against the catalogue's order)   *)
(* and a meteor track of two samples: the first among the dots, the second *)
(* among them too or, in every other file, far from them all.              *)
SightingFile(n) ==
    [dots |-> [i \in 1..n |-> [x |-> n + 1 - i, m |-> i]],
     meteor |-> <<[x |-> 1, m |-> 1, fno |-> 1],
                  [x |-> IF n % 2 = 1 THEN Remote ELSE n, m |-> 2,
                   fno |-> 2]>>,
     time |-> n % 2]

(***************************************************************************)
(* Catalogue and DotCollection: rows and a validity mask (TRUE = valid)    *)
(***************************************************************************)

AllValid(n) == [i \in 1..n |-> TRUE]

Collection(rows) == [rows |-> rows, mask |-> AllValid(Len(rows))]

Count(c) == Len(c.rows)

CountValid(c) == Cardinality({i \in DOMAIN c.mask : c.mask[i]})

RECURSIVE Compress(_, _)
(* the rows whose flag is set, in order: rows[mask] *)
Compress(rows, mask) ==
    IF rows = <<>> \/ mask = <<>> THEN <<>>
    ELSE (IF Head(mask) THEN <<Head(rows)>> ELSE <<>>)
         \o Compress(Tail(rows), Tail(mask))

Valid(c) == Compress(c.rows, c.mask)

(* a mask argument marks the entries to hide; it must have the shape of   *)
(* the collection                                                          *)
MaskFits(c, mask) == Len(mask) = Len(c.mask)

(* masks combine: a hidden entry stays hidden *)
SetMask(c, mask) ==
    [c EXCEPT !.mask = [i \in DOMAIN c.mask |-> c.mask[i] /\ ~mask[i]]]

ResetMask(c) == [c EXCEPT !.mask = AllValid(Len(c.rows))]

Cull(c) == Collection(Valid(c))

(***************************************************************************)
(* Projection and distances                                                *)
(***************************************************************************)

(* the parameter widgets in the order of param_widgets *)
ParamNames ==
    <<"x0", "y0", "a0", "A", "F", "V", "S", "D", "P", "Q", "eps", "E">>

NameSet == {ParamNames[i] : i \in DOMAIN ParamNames}

(* np.radians and np.degrees: an angle in radians is counted in half       *)
(* degrees, so the widget's whole degrees convert exactly                  *)
radians(d) == 2 * d

degrees(r) == r \div 2

(* getConstantsTuple that leaves eps in degrees *)
getConstantsTuple_Degrees(w) ==
    <<w["x0"], w["y0"], radians(w["a0"]), w["A"], radians(w["F"]), w["V"],
      w["S"], w["D"], w["P"], w["Q"], w["eps"], radians(w["E"])>>

(* getConstantsTuple: the widget values, the four angles in radians *)
getConstantsTuple(w) ==
    <<w["x0"], w["y0"], radians(w["a0"]), w["A"], radians(w["F"]), w["V"],
      w["S"], w["D"], w["P"], w["Q"], radians(w["eps"]), radians(w["E"])>>

(* BorovickaProjection(x0, y0, a0, A, F, V, S, D, P, Q, eps, E) *)
BorovickaProjection(c) ==
    [x0 |-> c[1], y0 |-> c[2], a0 |-> c[3], A |-> c[4], F |-> c[5],
     V |-> c[6], S |-> c[7], D |-> c[8], P |-> c[9], Q |-> c[10],
     eps |-> c[11], E |-> c[12]]

(* updateProjection *)
updateProjection(w) == BorovickaProjection(getConstantsTuple(w))

(* the projection shifts a pixel by its x0 *)
Project(dot, proj) == dot.x + proj.x0

Altaz(star, t) == star.pos + t

Distance(dot, star, proj, t) == Abs(Project(dot, proj) - Altaz(star, t))

Min(S) == CHOOSE m \in S : \A k \in S : m <= k

(* the altitude of the zenith, pi / 2 *)
Zenith == radians(90)

(* spherical_distance of an observed point given by its co-altitude from a *)
(* catalogue position                                                      *)
spherical_distance(coaltitude, position) ==
    Abs((Zenith - coaltitude) - position)

(* The unit disk, the smoother's working domain: the zenith at its centre, *)
(* the horizon at its rim, a point at its distance from the zenith. The    *)
(* rim is at Zenith, the radius 1 counted in the unit of the angles.       *)
Hemisphere == 0..Zenith

(* altaz_to_disk: a catalogue position to the disk *)
altaz_to_disk(altaz) == Zenith - altaz

(* proj_to_disk: a projected sensor point to the disk *)
proj_to_disk(projected) == Zenith - projected

(* disk_to_altaz: a point of the disk back to the sky *)
disk_to_altaz(xy) == Zenith - xy

(***************************************************************************)
(* Kernel smoother: the residual field fitted to the paired residuals      *)
(***************************************************************************)

NoSmoother == [built |-> FALSE, obs |-> <<>>, res |-> <<>>, bandwidth |-> 0]

(* the magnitude smoother of a session that does not follow it *)
Untracked == [built |-> FALSE, obs |-> <<>>, res |-> <<>>, bandwidth |-> -1]

KernelSmoother(obs, res, bw) ==
    [built |-> TRUE, obs |-> obs, res |-> res, bandwidth |-> bw]

(* kernels.nexp, exp(-u), in units of 2^-MaxExponent: beyond MaxExponent   *)
(* the weight underflows to zero                                           *)
nexp(u) == IF u > MaxExponent THEN 0 ELSE Pow2(MaxExponent - u)

RECURSIVE SumSeq(_)
SumSeq(s) == IF s = <<>> THEN 0 ELSE Head(s) + SumSeq(Tail(s))

(* the smoother at one query point: the weighted mean of the residuals,    *)
(* undefined (not valid) where every weight is zero                        *)
KernelSmoother_at(sm, x) ==
    LET w == [j \in 1..Len(sm.obs) |->
                 nexp(Abs(x - sm.obs[j]) \div sm.bandwidth)]
        sw == SumSeq(w)
    IN IF sw = 0 THEN [valid |-> FALSE, value |-> 0]
       ELSE [valid |-> TRUE,
             value |-> SumSeq([j \in 1..Len(w) |-> w[j] * sm.res[j]])
                       \div sw]

(* KernelSmoother.__call__: every query point of the batch on its own *)
KernelSmoother_call(sm, xs) ==
    [i \in 1..Len(xs) |-> KernelSmoother_at(sm, xs[i])]

(***************************************************************************)
(* Counselor: the paired matcher (matchers/counselor.py)                   *)
(***************************************************************************)

(* Counselor.__init__: the pairs are fixed on creation; ok = FALSE is the  *)
(* AssertionError                                                          *)
Counselor_init(cat, sd) ==
    [ok |-> Count(sd.stars) = Count(cat),
     matcher |-> "Counselor",
     catalogue |-> cat,
     sensor_data |-> sd,
     smoother |-> NoSmoother]

(* mask_catalogue that forgets the dots *)
Counselor_mask_catalogue_CatalogueOnly(cat, sd, mask) ==
    IF ~MaskFits(cat, mask)
    THEN [catalogue |-> cat, sensor_data |-> sd, raised |-> "ValueError"]
    ELSE [catalogue |-> SetMask(cat, mask), sensor_data |-> sd,
          raised |-> "None"]

(* mask_catalogue whose assignment to the dots' mask replaces the mask in  *)
(* place instead of combining with it                                      *)
Counselor_mask_catalogue_Replace(cat, sd, mask) ==
    IF ~MaskFits(cat, mask) \/ ~MaskFits(sd.stars, mask)
    THEN [catalogue |-> cat, sensor_data |-> sd, raised |-> "ValueError"]
    ELSE [catalogue |-> SetMask(cat, mask),
          sensor_data |-> [sd EXCEPT !.stars.mask =
                               [i \in DOMAIN mask |-> ~mask[i]]],
          raised |-> "None"]

(* mask_catalogue whose assignment to the dots' mask is a plain attribute  *)
(* assignment: no shape check                                              *)
Counselor_mask_catalogue_Unchecked(cat, sd, mask) ==
    IF ~MaskFits(cat, mask)
    THEN [catalogue |-> cat, sensor_data |-> sd, raised |-> "ValueError"]
    ELSE [catalogue |-> SetMask(cat, mask),
          sensor_data |-> [sd EXCEPT !.stars.mask =
              [i \in DOMAIN mask |->
                  ~mask[i] /\ (i \in DOMAIN sd.stars.mask => sd.stars.mask[i])]],
          raised |-> "None"]

(* mask_catalogue that removes the hidden entries at once *)
Counselor_mask_catalogue_Cull(cat, sd, mask) ==
    IF ~MaskFits(cat, mask) \/ ~MaskFits(sd.stars, mask)
    THEN [catalogue |-> cat, sensor_data |-> sd, raised |-> "ValueError"]
    ELSE [catalogue |-> Cull(SetMask(cat, mask)),
          sensor_data |-> [sd EXCEPT !.stars = Cull(SetMask(sd.stars, mask))],
          raised |-> "None"]

(* Counselor.mask_catalogue: the same mask goes to the catalogue and to    *)
(* the dots; a mask of the wrong shape stops the call where it is met      *)
Counselor_mask_catalogue(cat, sd, mask) ==
    IF ~MaskFits(cat, mask)
    THEN [catalogue |-> cat, sensor_data |-> sd, raised |-> "ValueError"]
    ELSE IF ~MaskFits(sd.stars, mask)
    THEN [catalogue |-> SetMask(cat, mask), sensor_data |-> sd,
          raised |-> "ValueError"]
    ELSE [catalogue |-> SetMask(cat, mask),
          sensor_data |-> [sd EXCEPT !.stars = SetMask(sd.stars, mask)],
          raised |-> "None"]

(* mask_sensor_data that masks the dots alone *)
Counselor_mask_sensor_data_DotsOnly(cat, sd, mask) ==
    IF ~MaskFits(sd.stars, mask)
    THEN [catalogue |-> cat, sensor_data |-> sd, raised |-> "ValueError"]
    ELSE [catalogue |-> cat,
          sensor_data |-> [sd EXCEPT !.stars = SetMask(sd.stars, mask)],
          raised |-> "None"]

Counselor_mask_sensor_data(cat, sd, mask) ==
    Counselor_mask_catalogue(cat, sd, mask)

(* compute_distances that searches the catalogue for the star nearest to   *)
(* each dot                                                                *)
Counselor_compute_distances_Nearest(observed, cat_altaz) ==
    LET written == [i \in 1..Len(observed) |-> Zenith - observed[i]]
    IN [ok |-> Len(observed) = Len(cat_altaz),
        observed |-> written,
        errors |-> [i \in 1..(IF Len(observed) = Len(cat_altaz)
                              THEN Len(observed) ELSE 0)
                    |-> Min({spherical_distance(written[i], cat_altaz[j]) :
                                 j \in 1..Len(cat_altaz)})]]

(* Counselor.compute_distances: dot i against star i. The observed        *)
(* altitudes are overwritten with co-altitudes in the array passed in:     *)
(* observed is that array after the call                                   *)
Counselor_compute_distances(observed, cat_altaz) ==
    LET written == [i \in 1..Len(observed) |-> Zenith - observed[i]]
    IN [ok |-> Len(observed) = Len(cat_altaz),
        observed |-> written,
        errors |-> [i \in 1..(IF Len(observed) = Len(cat_altaz)
                              THEN Len(observed) ELSE 0)
                    |-> spherical_distance(written[i], cat_altaz[i])]]

(* errors that projects into an array the dots keep: what                  *)
(* compute_distances writes into it stays in the sensor data               *)
Counselor_errors_InPlace(cat, sd, proj, t, masked) ==
    LET dots == IF masked THEN Valid(sd.stars) ELSE sd.stars.rows
        stars == IF masked THEN Valid(cat) ELSE cat.rows
        r == Counselor_compute_distances(
                 [i \in 1..Len(dots) |-> Project(dots[i], proj)],
                 [i \in 1..Len(stars) |-> Altaz(stars[i], t)])
    IN [ok |-> r.ok, errors |-> r.errors,
        sensor_data |-> [sd EXCEPT !.stars.rows =
            [i \in 1..Len(sd.stars.rows) |->
                [sd.stars.rows[i] EXCEPT
                     !.x = Zenith - Project(sd.stars.rows[i], proj)]]]]

(* Counselor.errors: the projected dots and the catalogue, all of them or  *)
(* the valid ones. project() hands out a new array, so the sensor data     *)
(* after the call are the sensor data before it                            *)
Counselor_errors(cat, sd, proj, t, masked) ==
    LET dots == IF masked THEN Valid(sd.stars) ELSE sd.stars.rows
        stars == IF masked THEN Valid(cat) ELSE cat.rows
        r == Counselor_compute_distances(
                 [i \in 1..Len(dots) |-> Project(dots[i], proj)],
                 [i \in 1..Len(stars) |-> Altaz(stars[i], t)])
    IN [ok |-> r.ok, errors |-> r.errors, sensor_data |-> sd]

Counselor_errors_inverse(cat, sd, proj, t, masked) ==
    Counselor_errors(cat, sd, proj, t, masked)

(* pair that hands back an unpaired matcher *)
Counselor_pair_Unpair(cat, sd, sm) ==
    [ok |-> TRUE,
     matcher |-> "Matchmaker",
     catalogue |-> Cull(cat),
     sensor_data |-> [sd EXCEPT !.stars = Cull(sd.stars)],
     smoother |-> sm]

(* pair that culls the catalogue alone *)
Counselor_pair_CatalogueOnly(cat, sd, sm) ==
    [ok |-> TRUE,
     matcher |-> "Counselor",
     catalogue |-> Cull(cat),
     sensor_data |-> sd,
     smoother |-> sm]

(* Counselor.pair: pairing again culls both collections and keeps the      *)
(* matcher                                                                 *)
Counselor_pair(cat, sd, sm) ==
    [ok |-> TRUE,
     matcher |-> "Counselor",
     catalogue |-> Cull(cat),
     sensor_data |-> [sd EXCEPT !.stars = Cull(sd.stars)],
     smoother |-> sm]

(* Counselor.update_smoother: residuals catalogue - observed on the disk,  *)
(* at the observed points; ok = FALSE when the two arrays differ in shape  *)
Counselor_update_smoother(cat, sd, proj, t, bw) ==
    LET stars == Valid(cat)
        dots == Valid(sd.stars)
        obs == [i \in 1..Len(dots) |-> proj_to_disk(Project(dots[i], proj))]
    IN IF Len(stars) # Len(dots)
       THEN [ok |-> FALSE, smoother |-> NoSmoother]
       ELSE [ok |-> TRUE,
             smoother |-> KernelSmoother(obs,
                 [i \in 1..Len(dots) |->
                      altaz_to_disk(Altaz(stars[i], t)) - obs[i]], bw)]

(* project_meteor that hands back the points of the disk *)
Counselor_project_meteor_Disk(sd, proj) ==
    [i \in 1..Len(sd.meteor) |-> proj_to_disk(Project(sd.meteor[i], proj))]

(* Counselor.project_meteor: the track projected, laid on the disk and     *)
(* taken back to the sky                                                   *)
Counselor_project_meteor(sd, proj) ==
    LET xy == [i \in 1..Len(sd.meteor) |->
                  proj_to_disk(Project(sd.meteor[i], proj))]
    IN [i \in 1..Len(xy) |-> disk_to_altaz(xy[i])]

(* correct_meteor that gives up the track when one sample has no          *)
(* correction                                                              *)
Counselor_correct_meteor_Abort(sd, proj, sm) ==
    LET xy == [i \in 1..Len(sd.meteor) |->
                  proj_to_disk(Project(sd.meteor[i], proj))]
        dxdy == KernelSmoother_call(sm, xy)
    IN [i \in 1..Len(xy) |->
           IF \A j \in 1..Len(xy) : dxdy[j].valid
           THEN [valid |-> TRUE,
                 value |-> disk_to_altaz(xy[i] + dxdy[i].value)]
           ELSE [valid |-> FALSE, value |-> 0]]

(* correct_meteor that adds the correction to the projected point itself,  *)
(* not to its place on the disk                                            *)
Counselor_correct_meteor_Sky(sd, proj, sm) ==
    LET xy == [i \in 1..Len(sd.meteor) |->
                  proj_to_disk(Project(sd.meteor[i], proj))]
        dxdy == KernelSmoother_call(sm, xy)
    IN [i \in 1..Len(xy) |->
           IF dxdy[i].valid
           THEN [valid |-> TRUE,
                 value |-> Project(sd.meteor[i], proj) + dxdy[i].value]
           ELSE [valid |-> FALSE, value |-> 0]]

(* Counselor.correct_meteor: every sample of the track laid on the disk,   *)
(* moved there by the smoother's correction at that point and taken back   *)
(* to the sky; a correction that is undefined leaves that sample undefined *)
Counselor_correct_meteor(sd, proj, sm) ==
    LET xy == [i \in 1..Len(sd.meteor) |->
                  proj_to_disk(Project(sd.meteor[i], proj))]
        dxdy == KernelSmoother_call(sm, xy)
    IN [i \in 1..Len(xy) |->
           IF dxdy[i].valid
           THEN [valid |-> TRUE,
                 value |-> disk_to_altaz(xy[i] + dxdy[i].value)]
           ELSE [valid |-> FALSE, value |-> 0]]

(* Counselor.print_meteor: a table with one row per sample of the track,   *)
(* the raw and the corrected position and the sample's magnitude; the      *)
(* table is printed and nothing is returned                                *)
Counselor_print_meteor(sd, proj, sm) ==
    LET raw == Counselor_project_meteor(sd, proj)
        corr == Counselor_correct_meteor(sd, proj, sm)
    IN [printed |-> [i \in 1..Len(sd.meteor) |->
                        [ev_r |-> raw[i], ev |-> corr[i],
                         mag |-> sd.meteor[i].m]],
        returned |-> "None"]

(* masked_grid: resolution nodes spread evenly over the disk, from its     *)
(* centre to its rim                                                       *)
masked_grid(resolution) ==
    [i \in 1..resolution |-> ((i - 1) * Zenith) \div (resolution - 1)]

(* Counselor.grid: the smoother at the nodes of the grid *)
Counselor_grid(sm, resolution) ==
    KernelSmoother_call(sm, masked_grid(resolution))

(* update_magnitude_smoother: the magnitude residuals catalogue - measured *)
(* at the observed points                                                  *)
Counselor_update_magnitude_smoother(cat, sd, proj, bw) ==
    LET stars == Valid(cat)
        dots == Valid(sd.stars)
        obs == [i \in 1..Len(dots) |-> proj_to_disk(Project(dots[i], proj))]
    IN IF Len(stars) # Len(dots)
       THEN [ok |-> FALSE, smoother |-> NoSmoother]
       ELSE [ok |-> TRUE,
             smoother |-> KernelSmoother(obs,
                 [i \in 1..Len(dots) |-> stars[i].vmag - dots[i].m], bw)]

(***************************************************************************)
(* Matchmaker: the unpaired matcher                                        *)
(***************************************************************************)

Matchmaker_mask_catalogue(cat, sd, mask) ==
    IF ~MaskFits(cat, mask)
    THEN [catalogue |-> cat, sensor_data |-> sd, raised |-> "ValueError"]
    ELSE [catalogue |-> SetMask(cat, mask), sensor_data |-> sd,
          raised |-> "None"]

Matchmaker_mask_sensor_data(cat, sd, mask) ==
    IF ~MaskFits(sd.stars, mask)
    THEN [catalogue |-> cat, sensor_data |-> sd, raised |-> "ValueError"]
    ELSE [catalogue |-> cat,
          sensor_data |-> [sd EXCEPT !.stars = SetMask(sd.stars, mask)],
          raised |-> "None"]

(* for every dot, the distance to its nearest valid catalogue star *)
Matchmaker_errors(cat, sd, proj, t, masked) ==
    LET dots == IF masked THEN Valid(sd.stars) ELSE sd.stars.rows
        stars == Valid(cat)
    IN [ok |-> TRUE,
        errors |-> [i \in 1..Len(dots) |->
            Min({Far} \cup {Distance(dots[i], stars[j], proj, t) :
                            j \in 1..Len(stars)})]]

(* for every catalogue star, the distance to its nearest valid dot *)
Matchmaker_errors_inverse(cat, sd, proj, t, masked) ==
    LET stars == IF masked THEN Valid(cat) ELSE cat.rows
        dots == Valid(sd.stars)
    IN [ok |-> TRUE,
        errors |-> [j \in 1..Len(stars) |->
            Min({Far} \cup {Distance(dots[i], stars[j], proj, t) :
                            i \in 1..Len(dots)})]]

RemoveAt(s, j) == SubSeq(s, 1, j - 1) \o SubSeq(s, j + 1, Len(s))

(* the first star of stars nearest to the dot *)
Nearest(dot, stars, proj, t) ==
    LET d(j) == Distance(dot, stars[j], proj, t)
    IN CHOOSE j \in 1..Len(stars) :
           /\ \A k \in 1..Len(stars) : d(j) <= d(k)
           /\ \A k \in 1..(j - 1) : d(k) > d(j)

RECURSIVE Assign(_, _, _, _)
(* nearest-neighbour assignment, dot by dot; the stars no dot took follow *)
Assign(dots, stars, proj, t) ==
    IF dots = <<>> \/ stars = <<>> THEN stars
    ELSE LET j == Nearest(Head(dots), stars, proj, t)
         IN <<stars[j]>> \o Assign(Tail(dots), RemoveAt(stars, j), proj, t)

(* Matchmaker.pair: the valid dots and the valid stars, the stars ordered  *)
(* by the assignment, handed to a new Counselor                            *)
Matchmaker_pair(cat, sd, proj, t) ==
    LET dots == Cull(sd.stars)
    IN Counselor_init(Collection(Assign(dots.rows, Valid(cat), proj, t)),
                      [sd EXCEPT !.stars = dots])

(***************************************************************************)
(* Dispatch on the matcher the session holds                               *)
(***************************************************************************)

Matcher_position_errors(m, cat, sd, proj, t, masked) ==
    IF m = "Counselor" THEN Counselor_errors(cat, sd, proj, t, masked)
    ELSE Matchmaker_errors(cat, sd, proj, t, masked)

Matcher_position_errors_inverse(m, cat, sd, proj, t, masked) ==
    IF m = "Counselor" THEN Counselor_errors_inverse(cat, sd, proj, t, masked)
    ELSE Matchmaker_errors_inverse(cat, sd, proj, t, masked)

Matcher_mask_catalogue(m, cat, sd, mask) ==
    IF m = "Counselor" THEN Counselor_mask_catalogue(cat, sd, mask)
    ELSE Matchmaker_mask_catalogue(cat, sd, mask)

Matcher_mask_sensor_data(m, cat, sd, mask) ==
    IF m = "Counselor" THEN Counselor_mask_sensor_data(cat, sd, mask)
    ELSE Matchmaker_mask_sensor_data(cat, sd, mask)

Matcher_pair(m, cat, sd, proj, t, sm) ==
    IF m = "Counselor" THEN Counselor_pair(cat, sd, sm)
    ELSE Matchmaker_pair(cat, sd, proj, t)

(* Matcher.reset_mask: every entry of both collections valid again *)
Matcher_reset_mask(cat, sd) ==
    [catalogue |-> ResetMask(cat),
     sensor_data |-> [sd EXCEPT !.stars = ResetMask(sd.stars)]]

(* Matcher.load_catalogue: the file's stars replace the catalogue *)
Matcher_load_catalogue(n) == Collection(CatalogueFile(n))

(* SensorData.load: the file's dots and meteor replace the sensor data *)
SensorData_load(n) ==
    [stars |-> Collection(SightingFile(n).dots),
     meteor |-> SightingFile(n).meteor]

(* update_position_smoother: only a Counselor has a residual field *)
Matcher_update_position_smoother(m, cat, sd, proj, t, sm, bw) ==
    IF m = "Counselor"
    THEN LET u == Counselor_update_smoother(cat, sd, proj, t, bw)
         IN [ok |-> u.ok, smoother |-> IF u.ok THEN u.smoother ELSE sm]
    ELSE [ok |-> TRUE, smoother |-> sm]

(* update_magnitude_smoother: likewise *)
Matcher_update_magnitude_smoother(m, cat, sd, proj, sm, bw) ==
    IF m = "Counselor"
    THEN LET u == Counselor_update_magnitude_smoother(cat, sd, proj, bw)
         IN [ok |-> u.ok,
             smoother |-> IF u.ok /\ sm # Untracked THEN u.smoother ELSE sm]
    ELSE [ok |-> TRUE, smoother |-> sm]

(***************************************************************************)
(* The sky plots (plots/sky/base.py): three layers, each with the data it  *)
(* was last drawn from and a flag that says the drawing is still good      *)
(***************************************************************************)

(* BaseSkyPlot.__init__ and add_axes: empty layers, none of them valid *)
BaseSkyPlot ==
    [scatter_stars |-> <<>>, scatter_dots |-> <<>>, scatter_meteor |-> <<>>,
     valid_stars |-> FALSE, valid_dots |-> FALSE, valid_meteor |-> FALSE]

invalidate_stars(plot) == [plot EXCEPT !.valid_stars = FALSE]

invalidate_dots(plot) == [plot EXCEPT !.valid_dots = FALSE]

invalidate_meteor(plot) == [plot EXCEPT !.valid_meteor = FALSE]

update_stars(plot, positions) ==
    [plot EXCEPT !.scatter_stars = positions, !.valid_stars = TRUE]

update_dots(plot, positions) ==
    [plot EXCEPT !.scatter_dots = positions, !.valid_dots = TRUE]

update_meteor(plot, positions) ==
    [plot EXCEPT !.scatter_meteor = positions, !.valid_meteor = TRUE]

(* the two sky plots of the main window *)
SkyPlots == [positionSkyPlot |-> BaseSkyPlot, magnitudeSkyPlot |-> BaseSkyPlot]

(* the sky plots of a session that does not follow its plots *)
Unplotted == [positionSkyPlot |-> Untracked, magnitudeSkyPlot |-> Untracked]

(* what the layers show: the valid stars on the sky, the valid dots and    *)
(* the meteor's samples as the projection places them                      *)
StarPositions(cat, t) ==
    [i \in 1..Len(Valid(cat)) |-> Altaz(Valid(cat)[i], t)]

DotPositions(sd, proj) ==
    [i \in 1..Len(Valid(sd.stars)) |-> Project(Valid(sd.stars)[i], proj)]

MeteorPositions(sd, proj) ==
    [i \in 1..Len(sd.meteor) |-> Project(sd.meteor[i], proj)]

(* one sky plot in updatePlots: a layer that is not valid is drawn again *)
updateSkyPlot(plot, cat, sd, proj, t) ==
    LET a == IF plot.valid_stars THEN plot
             ELSE update_stars(plot, StarPositions(cat, t))
        b == IF a.valid_dots THEN a
             ELSE update_dots(a, DotPositions(sd, proj))
    IN IF b.valid_meteor THEN b
       ELSE update_meteor(b, MeteorPositions(sd, proj))

(* updatePlots *)
updatePlots(p, cat, sd, proj, t) ==
    IF p = Unplotted THEN p
    ELSE [positionSkyPlot |->
              updateSkyPlot(p.positionSkyPlot, cat, sd, proj, t),
          magnitudeSkyPlot |->
              updateSkyPlot(p.magnitudeSkyPlot, cat, sd, proj, t)]

(***************************************************************************)
(* The main window (mainwindow.py)                                         *)
(***************************************************************************)

TypeOK ==
    /\ matcher \in {"Matchmaker", "Counselor"}
    /\ projection.x0 \in Int
    /\ DOMAIN widgets = NameSet
    /\ blocked \in BOOLEAN
    /\ hs_bandwidth \in 0..MaxSlider
    /\ time \in Times
    /\ raised \in {"None", "AssertionError", "ValueError", "TypeError"}
    /\ Len(catalogue.mask) = Len(catalogue.rows)
    /\ Len(sensor_data.stars.mask) = Len(sensor_data.stars.rows)

(* handler names the handler that ran last in the specifications that    *)
(* record it; it stays "off" in those that do not                          *)
Log(h) == IF handler = "off" THEN "off" ELSE h

(* no export document written yet *)
NoDocument == [written |-> FALSE, records |-> <<>>]

(* w_input.setEnabled: the input panel is followed in the specifications   *)
(* that record the handler, and stays as it is in those that do not        *)
setEnabled(enabled) == IF handler = "off" THEN w_input ELSE enabled

(* a file that is not there, and one that is not YAML *)
NoFile == [kind |-> "missing", params |-> <<>>]

Unparsable == [kind |-> "unparsable", params |-> <<>>]

(* a constants file: the parameters as name and value, in the order        *)
(* yaml.dump writes the keys                                               *)
ConstantsFile(x) ==
    [kind |-> "yaml",
     params |-> <<<<"A", 4>>, <<"D", 8>>, <<"E", 12>>, <<"F", 5>>,
                  <<"P", 9>>, <<"Q", 10>>, <<"S", 7>>, <<"V", 6>>,
                  <<"a0", 3>>, <<"eps", 11>>, <<"x0", x>>, <<"y0", 2>>>>]

(* data.params[param] of the loaded record *)
Has(params, name) == \E i \in DOMAIN params : params[i][1] = name

Get(params, name) ==
    params[CHOOSE i \in DOMAIN params : params[i][1] = name][2]

(* the record without one of its fields *)
Without(data, name) ==
    [data EXCEPT !.params = SelectSeq(data.params, LAMBDA p : p[1] # name)]

(* self.bandwidth(): the slider's value to a kernel width; a higher value  *)
(* is a narrower kernel                                                    *)
bandwidth(s) == Pow2(MaxSlider - s)

(* MainWindow.__init__: a Matchmaker with a catalogue, a sighting and the  *)
(* projection constants loaded                                             *)
InitSession(h, msm, followed) ==
    /\ matcher = "Matchmaker"
    /\ \E n \in 1..MaxStars : catalogue = Matcher_load_catalogue(n)
    /\ \E n \in 1..MaxDots :
           /\ sensor_data = SensorData_load(n)
           /\ time = SightingFile(n).time
    /\ \E x \in Params :
           widgets = [n \in NameSet |-> Get(ConstantsFile(x).params, n)]
    /\ projection = updateProjection(widgets)
    /\ blocked = FALSE
    /\ exported = NoFile
    /\ hs_bandwidth = 0
    /\ smoother = NoSmoother
    /\ magnitude_smoother = msm
    /\ returned = <<>>
    /\ document = NoDocument
    /\ w_input = TRUE
    /\ plots = (IF followed
                THEN updatePlots(SkyPlots, catalogue, sensor_data,
                                 projection, time)
                ELSE Unplotted)
    /\ handler = h
    /\ raised = "None"

Init == InitSession("off", Untracked, FALSE)

(* the rest of onParametersChanged once the projection is updated: the     *)
(* position smoother is rebuilt, then the errors are computed              *)
ParametersChanged(m, cat, sd, proj, t, sm) ==
    LET u == Matcher_update_position_smoother(m, cat, sd, proj, t, sm,
                                              bandwidth(hs_bandwidth))
        e == Matcher_position_errors(m, cat, sd, proj, t, TRUE)
    IN [smoother |-> u.smoother,
        raised |-> IF u.ok /\ e.ok THEN "None" ELSE "ValueError"]

(* onLocationTimeChanged from its first smoother update on: both smoothers *)
(* are rebuilt, then the errors are computed                               *)
LocationTimeChanged(m, cat, sd, proj, t, sm, msm) ==
    LET u == Matcher_update_position_smoother(m, cat, sd, proj, t, sm,
                                              bandwidth(hs_bandwidth))
        v == Matcher_update_magnitude_smoother(m, cat, sd, proj, msm,
                                               bandwidth(hs_bandwidth))
        e == Matcher_position_errors(m, cat, sd, proj, t, TRUE)
    IN [smoother |-> u.smoother,
        magnitude_smoother |-> IF u.ok THEN v.smoother ELSE msm,
        updated |-> u.ok,
        raised |-> IF u.ok /\ v.ok /\ e.ok THEN "None" ELSE "ValueError"]

(* computePositionErrors *)
computePositionErrors(m, cat, sd, proj, t) ==
    IF Matcher_position_errors(m, cat, sd, proj, t, TRUE).ok
    THEN "None" ELSE "ValueError"

(* the sky plots in onParametersChanged: the dots and the meteor of both   *)
(* are invalidated; updatePlots runs unless the handler raised before it   *)
ParametersPlots(p, cat, sd, proj, t, exc) ==
    IF p = Unplotted THEN p
    ELSE LET q == [positionSkyPlot |->
                       invalidate_meteor(invalidate_dots(p.positionSkyPlot)),
                   magnitudeSkyPlot |->
                       invalidate_meteor(
                           invalidate_dots(p.magnitudeSkyPlot))]
         IN IF exc = "None" THEN updatePlots(q, cat, sd, proj, t) ELSE q

(* the sky plots in onLocationTimeChanged: nothing when updateMatcher      *)
(* raised; else the stars of both are invalidated and updatePlots runs     *)
(* unless a later step raised                                              *)
LocationTimePlots(p, cat, sd, proj, t, updated, exc) ==
    IF p = Unplotted \/ ~updated THEN p
    ELSE LET q == [positionSkyPlot |-> invalidate_stars(p.positionSkyPlot),
                   magnitudeSkyPlot |->
                       invalidate_stars(p.magnitudeSkyPlot)]
         IN IF exc = "None" THEN updatePlots(q, cat, sd, proj, t) ELSE q

(* the sky plots in maskCatalogueDistant and maskCatalogueFaint: the stars *)
(* of the position plot are invalidated                                    *)
MaskCataloguePlots(p, cat, sd, proj, t, exc) ==
    IF p = Unplotted THEN p
    ELSE LET q == [p EXCEPT !.positionSkyPlot = invalidate_stars(@)]
         IN IF exc = "None" THEN updatePlots(q, cat, sd, proj, t) ELSE q

(* the sky plots in pair: the dots and the stars of both are invalidated *)
PairPlots(p, cat, sd, proj, t) ==
    IF p = Unplotted THEN p
    ELSE updatePlots(
             [positionSkyPlot |->
                  invalidate_stars(invalidate_dots(p.positionSkyPlot)),
              magnitudeSkyPlot |->
                  invalidate_stars(invalidate_dots(p.magnitudeSkyPlot))],
             cat, sd, proj, t)

(* onParametersChanged that keeps the projection it has *)
onParametersChanged_Stale(name, value) ==
    LET w == [widgets EXCEPT ![name] = value]
        r == ParametersChanged(matcher, catalogue, sensor_data, projection,
                               time, smoother)
    IN /\ widgets[name] # value
       /\ widgets' = w
       /\ IF blocked
          THEN /\ handler' = Log("setValue")
               /\ UNCHANGED <<projection, smoother, raised>>
          ELSE /\ handler' = Log("onParametersChanged")
               /\ UNCHANGED projection
               /\ smoother' = r.smoother
               /\ raised' = r.raised
       /\ plots' =
             IF blocked THEN plots
             ELSE ParametersPlots(plots, catalogue, sensor_data,
                      projection, time, r.raised)
       /\ UNCHANGED <<matcher, catalogue, sensor_data, time, blocked,
                      exported, hs_bandwidth, magnitude_smoother, returned,
                      document, w_input>>

(* a parameter widget takes a new value; unless the widgets' signals are   *)
(* blocked, valueChanged runs onParametersChanged                          *)
onParametersChanged(name, value) ==
    LET w == [widgets EXCEPT ![name] = value]
        proj == updateProjection(w)
        r == ParametersChanged(matcher, catalogue, sensor_data, proj, time,
                               smoother)
    IN /\ widgets[name] # value
       /\ widgets' = w
       /\ IF blocked
          THEN /\ handler' = Log("setValue")
               /\ UNCHANGED <<projection, smoother, raised>>
          ELSE /\ handler' = Log("onParametersChanged")
               /\ projection' = proj
               /\ smoother' = r.smoother
               /\ raised' = r.raised
       /\ plots' =
             IF blocked THEN plots
             ELSE ParametersPlots(plots, catalogue, sensor_data,
                      proj, time, r.raised)
       /\ UNCHANGED <<matcher, catalogue, sensor_data, time, blocked,
                      exported, hs_bandwidth, magnitude_smoother, returned,
                      document, w_input>>

(* the location or the time changes *)
onLocationTimeChanged(t) ==
    LET r == LocationTimeChanged(matcher, catalogue, sensor_data, projection,
                                 t, smoother, magnitude_smoother)
    IN /\ time' = t
       /\ smoother' = r.smoother
       /\ magnitude_smoother' = r.magnitude_smoother
       /\ raised' = r.raised
       /\ handler' = Log("onLocationTimeChanged")
       /\ plots' =
             LocationTimePlots(plots, catalogue, sensor_data, projection,
                 t, r.updated, r.raised)
       /\ UNCHANGED <<matcher, catalogue, sensor_data, projection, inputs,
                      returned, document, w_input>>

loadCatalogue(n) ==
    LET cat == Matcher_load_catalogue(n)
        proj == updateProjection(widgets)
        r == ParametersChanged(matcher, cat, sensor_data, proj, time,
                               smoother)
    IN /\ catalogue' = cat
       /\ projection' = proj
       /\ smoother' = r.smoother
       /\ raised' = r.raised
       /\ handler' = Log("loadCatalogue")
       /\ plots' =
             ParametersPlots(plots, cat, sensor_data,
                      proj, time, r.raised)
       /\ UNCHANGED <<matcher, sensor_data, time, inputs,
                      magnitude_smoother, returned, document, w_input>>

(* loadSighting: the sighting is loaded, then onLocationTimeChanged and    *)
(* onParametersChanged run                                                 *)
loadSighting(n) ==
    LET sd == SensorData_load(n)
        t == SightingFile(n).time
        lt == LocationTimeChanged(matcher, catalogue, sd, projection, t,
                                  smoother, magnitude_smoother)
        proj == updateProjection(widgets)
        r == ParametersChanged(matcher, catalogue, sd, proj, t, lt.smoother)
    IN /\ sensor_data' = sd
       /\ time' = t
       /\ magnitude_smoother' = lt.magnitude_smoother
       /\ IF lt.raised # "None"
          THEN /\ smoother' = lt.smoother
               /\ raised' = lt.raised
               /\ UNCHANGED projection
          ELSE /\ projection' = proj
               /\ smoother' = r.smoother
               /\ raised' = r.raised
       /\ handler' = Log("loadSighting")
       /\ plots' =
             LET lp == LocationTimePlots(plots, catalogue, sd, projection,
                           t, lt.updated, lt.raised)
             IN IF lt.raised # "None" THEN lp
                ELSE ParametersPlots(lp, catalogue, sd, proj, t, r.raised)
       /\ UNCHANGED <<matcher, catalogue, inputs, returned, document,
                      w_input>>

(* maskSensor: hide the dots whose position error exceeds the error limit *)
maskSensor(limit) ==
    \E e \in {Matcher_position_errors(matcher, catalogue, sensor_data,
                                      projection, time, FALSE)} :
      LET mask == [i \in 1..Len(e.errors) |-> e.errors[i] > limit]
          r == Matcher_mask_sensor_data(matcher, catalogue, sensor_data,
                                        mask)
          proj == updateProjection(widgets)
          pc == ParametersChanged(matcher, r.catalogue, r.sensor_data,
                                  proj, time, smoother)
      IN /\ handler' = Log("maskSensor")
         /\ IF ~e.ok
            THEN /\ raised' = "ValueError"
                 /\ UNCHANGED <<catalogue, sensor_data, smoother,
                                projection>>
            ELSE /\ catalogue' = r.catalogue
                 /\ sensor_data' = r.sensor_data
                 /\ IF r.raised # "None"
                    THEN /\ raised' = r.raised
                         /\ UNCHANGED <<smoother, projection>>
                    ELSE /\ projection' = proj
                         /\ smoother' = pc.smoother
                         /\ raised' = pc.raised
         /\ plots' =
               IF ~e.ok \/ r.raised # "None" THEN plots
               ELSE ParametersPlots(plots, r.catalogue, r.sensor_data, proj,
                        time, pc.raised)
         /\ UNCHANGED <<matcher, time, inputs, magnitude_smoother,
                        returned, document, w_input>>

(* maskCatalogueDistant: hide the stars farther than the distance limit    *)
(* from every dot                                                          *)
maskCatalogueDistant(limit) ==
    \E e \in {Matcher_position_errors_inverse(matcher, catalogue,
                   sensor_data, projection, time, FALSE)} :
      LET mask == [i \in 1..Len(e.errors) |-> e.errors[i] > limit]
          r == Matcher_mask_catalogue(matcher, catalogue, sensor_data, mask)
      IN /\ handler' = Log("maskCatalogueDistant")
         /\ IF ~e.ok
            THEN /\ raised' = "ValueError"
                 /\ UNCHANGED <<catalogue, sensor_data>>
            ELSE /\ catalogue' = r.catalogue
                 /\ sensor_data' = r.sensor_data
                 /\ raised' = IF r.raised # "None" THEN r.raised
                              ELSE computePositionErrors(matcher,
                                       r.catalogue, r.sensor_data,
                                       projection, time)
         /\ plots' =
               IF ~e.ok \/ r.raised # "None" THEN plots
               ELSE MaskCataloguePlots(plots, r.catalogue, r.sensor_data,
                        projection, time,
                        computePositionErrors(matcher, r.catalogue,
                            r.sensor_data, projection, time))
         /\ UNCHANGED <<matcher, projection, time, smoother, inputs,
                        magnitude_smoother, returned, document, w_input>>

(* maskCatalogueFaint that masks the catalogue as the unpaired matcher     *)
(* does, whatever the matcher                                              *)
maskCatalogueFaint_CatalogueOnly(limit) ==
    LET mask == [i \in 1..Count(catalogue) |->
                     catalogue.rows[i].vmag > limit]
        r == Matchmaker_mask_catalogue(catalogue, sensor_data, mask)
    IN /\ handler' = Log("maskCatalogueFaint")
       /\ catalogue' = r.catalogue
       /\ sensor_data' = r.sensor_data
       /\ raised' = IF r.raised # "None" THEN r.raised
                    ELSE computePositionErrors(matcher, r.catalogue,
                             r.sensor_data, projection, time)
       /\ plots' =
             IF r.raised # "None" THEN plots
             ELSE MaskCataloguePlots(plots, r.catalogue, r.sensor_data,
                      projection, time,
                      computePositionErrors(matcher, r.catalogue,
                          r.sensor_data, projection, time))
       /\ UNCHANGED <<matcher, projection, time, smoother, inputs,
                      magnitude_smoother, returned, document, w_input>>

(* maskCatalogueFaint: hide the stars fainter than the magnitude limit *)
maskCatalogueFaint(limit) ==
    LET mask == [i \in 1..Count(catalogue) |->
                     catalogue.rows[i].vmag > limit]
        r == Matcher_mask_catalogue(matcher, catalogue, sensor_data, mask)
    IN /\ handler' = Log("maskCatalogueFaint")
       /\ catalogue' = r.catalogue
       /\ sensor_data' = r.sensor_data
       /\ raised' = IF r.raised # "None" THEN r.raised
                    ELSE computePositionErrors(matcher, r.catalogue,
                             r.sensor_data, projection, time)
       /\ plots' =
             IF r.raised # "None" THEN plots
             ELSE MaskCataloguePlots(plots, r.catalogue, r.sensor_data,
                      projection, time,
                      computePositionErrors(matcher, r.catalogue,
                          r.sensor_data, projection, time))
       /\ UNCHANGED <<matcher, projection, time, smoother, inputs,
                      magnitude_smoother, returned, document, w_input>>

(* resetValid that refreshes without resetting the masks *)
resetValid_NoReset ==
    LET proj == updateProjection(widgets)
        pc == ParametersChanged(matcher, catalogue, sensor_data,
                                proj, time, smoother)
    IN /\ handler' = Log("resetValid")
       /\ projection' = proj
       /\ smoother' = pc.smoother
       /\ raised' = pc.raised
       /\ plots' =
             ParametersPlots(plots, catalogue, sensor_data,
                      proj, time, pc.raised)
       /\ UNCHANGED <<matcher, catalogue, sensor_data, time, inputs,
                      magnitude_smoother, returned, document, w_input>>

resetValid ==
    LET r == Matcher_reset_mask(catalogue, sensor_data)
        proj == updateProjection(widgets)
        pc == ParametersChanged(matcher, r.catalogue, r.sensor_data,
                                proj, time, smoother)
    IN /\ handler' = Log("resetValid")
       /\ catalogue' = r.catalogue
       /\ sensor_data' = r.sensor_data
       /\ projection' = proj
       /\ smoother' = pc.smoother
       /\ raised' = pc.raised
       /\ plots' =
             ParametersPlots(plots, r.catalogue, r.sensor_data, proj,
                 time, pc.raised)
       /\ UNCHANGED <<matcher, time, inputs, magnitude_smoother, returned,
                      document, w_input>>

(* pair that culls the session's collections before the pairing is tried *)
pair_CullFirst ==
    LET cat == Cull(catalogue)
        sd == [sensor_data EXCEPT !.stars = Cull(sensor_data.stars)]
        r == Matcher_pair(matcher, cat, sd, projection, time, smoother)
        u == Matcher_update_position_smoother(r.matcher, r.catalogue,
                 r.sensor_data, projection, time, r.smoother,
                 bandwidth(hs_bandwidth))
        v == Matcher_update_magnitude_smoother(r.matcher, r.catalogue,
                 r.sensor_data, projection, magnitude_smoother,
                 bandwidth(hs_bandwidth))
    IN /\ handler' = Log("pair")
       /\ IF ~r.ok
          THEN /\ raised' = "AssertionError"
               /\ catalogue' = cat
               /\ sensor_data' = sd
               /\ UNCHANGED <<matcher, smoother, magnitude_smoother>>
          ELSE /\ matcher' = r.matcher
               /\ catalogue' = r.catalogue
               /\ sensor_data' = r.sensor_data
               /\ smoother' = u.smoother
               /\ magnitude_smoother' =
                      IF u.ok THEN v.smoother ELSE magnitude_smoother
               /\ raised' = IF u.ok /\ v.ok THEN "None" ELSE "ValueError"
       /\ plots' =
             IF ~r.ok \/ ~u.ok \/ ~v.ok THEN plots
             ELSE PairPlots(plots, r.catalogue, r.sensor_data, projection,
                      time)
       /\ UNCHANGED <<projection, time, inputs, returned, document,
                      w_input>>

(* pair: the session takes the matcher that pairing returns, then both     *)
(* smoothers are rebuilt; a rejected pairing raises before the assignment  *)
pair ==
    \E r \in {Matcher_pair(matcher, catalogue, sensor_data, projection, time,
                           smoother)} :
      LET u == Matcher_update_position_smoother(r.matcher, r.catalogue,
                   r.sensor_data, projection, time, r.smoother,
                   bandwidth(hs_bandwidth))
          v == Matcher_update_magnitude_smoother(r.matcher, r.catalogue,
                   r.sensor_data, projection, magnitude_smoother,
                   bandwidth(hs_bandwidth))
      IN /\ handler' = Log("pair")
         /\ IF ~r.ok
            THEN /\ raised' = "AssertionError"
                 /\ UNCHANGED <<matcher, catalogue, sensor_data, smoother,
                                magnitude_smoother>>
            ELSE /\ matcher' = r.matcher
                 /\ catalogue' = r.catalogue
                 /\ sensor_data' = r.sensor_data
                 /\ smoother' = u.smoother
                 /\ magnitude_smoother' =
                        IF u.ok THEN v.smoother ELSE magnitude_smoother
                 /\ raised' = IF u.ok /\ v.ok THEN "None" ELSE "ValueError"
         /\ plots' =
               IF ~r.ok \/ ~u.ok \/ ~v.ok THEN plots
               ELSE PairPlots(plots, r.catalogue, r.sensor_data, projection,
                        time)
         /\ UNCHANGED <<projection, time, inputs, returned, document,
                        w_input>>

(* the bandwidth slider takes the value s; the slider action 7 (a move of  *)
(* the handle) returns at once, any other rebuilds both smoothers          *)
onBandwidthChanged(s, action) ==
    LET u == Matcher_update_position_smoother(matcher, catalogue,
                 sensor_data, projection, time, smoother, bandwidth(s))
        v == Matcher_update_magnitude_smoother(matcher, catalogue,
                 sensor_data, projection, magnitude_smoother, bandwidth(s))
    IN /\ hs_bandwidth' = s
       /\ handler' = Log("onBandwidthChanged")
       /\ IF action = 7
          THEN UNCHANGED <<smoother, magnitude_smoother, raised>>
          ELSE /\ smoother' = u.smoother
               /\ magnitude_smoother' =
                      IF u.ok THEN v.smoother ELSE magnitude_smoother
               /\ raised' = IF u.ok /\ v.ok THEN "None" ELSE "ValueError"
       /\ plots' =
             IF action = 7 \/ ~u.ok \/ ~v.ok THEN plots
             ELSE updatePlots(plots, catalogue, sensor_data, projection,
                      time)
       /\ UNCHANGED <<matcher, catalogue, sensor_data, projection, time,
                      widgets, blocked, exported, returned, document,
                      w_input>>

(* _exportProjectionConstants that writes eps under the name e *)
_exportProjectionConstants_Misnamed(w) ==
    [kind |-> "yaml",
     params |-> <<<<"A", w["A"]>>, <<"D", w["D"]>>, <<"E", w["E"]>>,
                  <<"F", w["F"]>>, <<"P", w["P"]>>, <<"Q", w["Q"]>>,
                  <<"S", w["S"]>>, <<"V", w["V"]>>, <<"a0", w["a0"]>>,
                  <<"e", w["eps"]>>, <<"x0", w["x0"]>>,
                  <<"y0", w["y0"]>>>>]

(* _exportProjectionConstants: yaml.dump of the twelve widget values under *)
(* their names, the keys sorted                                            *)
_exportProjectionConstants(w) ==
    [kind |-> "yaml",
     params |-> <<<<"A", w["A"]>>, <<"D", w["D"]>>, <<"E", w["E"]>>,
                  <<"F", w["F"]>>, <<"P", w["P"]>>, <<"Q", w["Q"]>>,
                  <<"S", w["S"]>>, <<"V", w["V"]>>, <<"a0", w["a0"]>>,
                  <<"eps", w["eps"]>>, <<"x0", w["x0"]>>,
                  <<"y0", w["y0"]>>>>]

exportProjectionConstants ==
    /\ exported' = _exportProjectionConstants(widgets)
    /\ raised' = "None"
    /\ handler' = Log("exportProjectionConstants")
    /\ UNCHANGED <<matcher, catalogue, sensor_data, projection, time,
                   smoother, widgets, blocked, hs_bandwidth,
                   magnitude_smoother, returned, document, w_input, plots>>

(* the place in param_widgets of the first parameter the record lacks,     *)
(* one past the end when it has them all                                   *)
FirstMissing(params) ==
    Min({i \in DOMAIN ParamNames : ~Has(params, ParamNames[i])}
        \cup {Len(ParamNames) + 1})

(* _importProjectionConstants: a file that is missing or is not YAML is    *)
(* logged and nothing is done; otherwise the widgets are set one by one    *)
(* with their signals blocked, and setValue raises on a parameter the      *)
(* record lacks                                                            *)
_importProjectionConstants(w, b, data) ==
    LET k == FirstMissing(data.params)
        set == {ParamNames[i] : i \in 1..(k - 1)}
    IN IF data.kind # "yaml"
       THEN [widgets |-> w, blocked |-> b, raised |-> "None"]
       ELSE [widgets |-> [n \in NameSet |->
                             IF n \in set THEN Get(data.params, n) ELSE w[n]],
             blocked |-> k <= Len(ParamNames),
             raised |-> IF k <= Len(ParamNames) THEN "TypeError" ELSE "None"]

(* importProjectionConstants: the import, then onParametersChanged *)
importProjectionConstants(data) ==
    LET i == _importProjectionConstants(widgets, blocked, data)
        proj == updateProjection(i.widgets)
        r == ParametersChanged(matcher, catalogue, sensor_data, proj, time,
                               smoother)
    IN /\ widgets' = i.widgets
       /\ blocked' = i.blocked
       /\ handler' = Log("importProjectionConstants")
       /\ IF i.raised # "None"
          THEN /\ raised' = i.raised
               /\ UNCHANGED <<projection, smoother>>
          ELSE /\ projection' = proj
               /\ smoother' = r.smoother
               /\ raised' = r.raised
       /\ plots' =
             IF i.raised # "None" THEN plots
             ELSE ParametersPlots(plots, catalogue, sensor_data,
                      proj, time, r.raised)
       /\ UNCHANGED <<matcher, catalogue, sensor_data, time, exported,
                      hs_bandwidth, magnitude_smoother, returned, document,
                      w_input>>

(* the constants the optimizer may move to in one iteration: x0 one step   *)
(* either way, inside the box                                              *)
Neighbours(c) ==
    {[c EXCEPT ![1] = x] : x \in {c[1] - 1, c[1] + 1} \cap Params}

(* the sum of the position errors under the constants c *)
Cost(m, cat, sd, t, c) ==
    SumSeq(Matcher_position_errors(m, cat, sd, BorovickaProjection(c), t,
                                   TRUE).errors)

(* the best of the scored candidates: the lowest cost, then the lowest x0 *)
Best(scored) ==
    CHOOSE d \in scored : \A e \in scored :
        \/ d[1] < e[1]
        \/ d[1] = e[1] /\ d[2][1] <= e[2][1]

RECURSIVE Descend(_, _, _, _, _, _, _)
(* one iteration after another until no neighbour is better (success) or   *)
(* maxiter iterations are spent (no success)                               *)
Descend(m, cat, sd, t, c, maxiter, nit) ==
    LET here == Cost(m, cat, sd, t, c)
        scored == {<<Cost(m, cat, sd, t, d), d>> : d \in Neighbours(c)}
        better == {d \in scored : d[1] < here}
    IN IF better = {} THEN [ok |-> TRUE, x |-> c, success |-> TRUE,
                            nit |-> nit]
       ELSE IF nit >= maxiter THEN [ok |-> TRUE, x |-> c, success |-> FALSE,
                                    nit |-> nit]
       ELSE Descend(m, cat, sd, t, Best(better)[2], maxiter, nit + 1)

(* Matcher.minimize: ok = FALSE when the errors cannot be evaluated *)
Matcher_minimize(m, cat, sd, t, x0, maxiter) ==
    IF ~Matcher_position_errors(m, cat, sd, BorovickaProjection(x0), t,
                                TRUE).ok
    THEN [ok |-> FALSE, x |-> x0, success |-> FALSE, nit |-> 0]
    ELSE Descend(m, cat, sd, t, x0, maxiter, 0)

(* minimize that takes a result without success for an error *)
minimize_Strict(maxiter) ==
    \E result \in {Matcher_minimize(matcher, catalogue, sensor_data, time,
                                     getConstantsTuple(widgets), maxiter)} :
      LET x == result.x
          w == [x0 |-> x[1], y0 |-> x[2], a0 |-> degrees(x[3]), A |-> x[4],
                F |-> degrees(x[5]), V |-> x[6], S |-> x[7], D |-> x[8],
                P |-> x[9], Q |-> x[10], eps |-> degrees(x[11]),
                E |-> degrees(x[12])]
          proj == updateProjection(w)
          pc == ParametersChanged(matcher, catalogue, sensor_data, proj,
                                  time, smoother)
      IN /\ handler' = Log("minimize")
         /\ IF ~result.ok \/ ~result.success
            THEN /\ raised' = "ValueError"
                 /\ UNCHANGED <<widgets, blocked, projection, smoother>>
            ELSE /\ widgets' = w
                 /\ blocked' = FALSE
                 /\ projection' = proj
                 /\ smoother' = pc.smoother
                 /\ raised' = pc.raised
         /\ plots' =
               IF ~result.ok \/ ~result.success THEN plots
               ELSE ParametersPlots(plots, catalogue, sensor_data,
                        proj, time, pc.raised)
         /\ w_input' =
               setEnabled(result.ok /\ result.success)
         /\ UNCHANGED <<matcher, catalogue, sensor_data, time, exported,
                        hs_bandwidth, magnitude_smoother, returned,
                        document>>

(* minimize: the optimizer starts from the widgets' constants; its result  *)
(* is written back with the signals blocked, the four angles in degrees,   *)
(* then onParametersChanged runs                                           *)
minimize(maxiter) ==
    \E result \in {Matcher_minimize(matcher, catalogue, sensor_data, time,
                                     getConstantsTuple(widgets), maxiter)} :
      LET x == result.x
          w == [x0 |-> x[1], y0 |-> x[2], a0 |-> degrees(x[3]), A |-> x[4],
                F |-> degrees(x[5]), V |-> x[6], S |-> x[7], D |-> x[8],
                P |-> x[9], Q |-> x[10], eps |-> degrees(x[11]),
                E |-> degrees(x[12])]
          proj == updateProjection(w)
          pc == ParametersChanged(matcher, catalogue, sensor_data, proj,
                                  time, smoother)
      IN /\ handler' = Log("minimize")
         /\ IF ~result.ok
            THEN /\ raised' = "ValueError"
                 /\ UNCHANGED <<widgets, blocked, projection, smoother>>
            ELSE /\ widgets' = w
                 /\ blocked' = FALSE
                 /\ projection' = proj
                 /\ smoother' = pc.smoother
                 /\ raised' = pc.raised
         /\ plots' =
               IF ~result.ok THEN plots
               ELSE ParametersPlots(plots, catalogue, sensor_data,
                        proj, time, pc.raised)
         /\ w_input' =
               setEnabled(result.ok)
         /\ UNCHANGED <<matcher, catalogue, sensor_data, time, exported,
                        hs_bandwidth, magnitude_smoother, returned,
                        document>>

(* the parameters of Counselor.print_meteor after self, and the arguments  *)
(* exportCorrectedMeteor calls it with                                     *)
print_meteor_parameters == <<"projection">>

print_meteor_arguments == <<"projection", "calibration">>

(* file names from the save dialog: none chosen, or one *)
FileNames == {"", "meteor.xml"}

(* exportCorrectedMeteor that writes its document whatever the matcher *)
exportCorrectedMeteor_Always(filename) ==
    /\ handler' = Log("exportCorrectedMeteor")
    /\ IF filename = ""
       THEN /\ raised' = "None"
            /\ UNCHANGED document
       ELSE /\ document' = [written |-> TRUE, records |-> <<>>]
            /\ raised' = "TypeError"
    /\ UNCHANGED <<matcher, catalogue, sensor_data, projection, time,
                   smoother, inputs, magnitude_smoother, returned, w_input,
                   plots>>

(* exportCorrectedMeteor: nothing while unpaired or without a file name;   *)
(* else the file is opened, the head of the document is written, and       *)
(* print_meteor is called for the records. A call with more arguments than *)
(* parameters raises TypeError, and so does file.write of None             *)
exportCorrectedMeteor(filename) ==
    LET out == Counselor_print_meteor(sensor_data, projection, smoother)
    IN /\ handler' = Log("exportCorrectedMeteor")
       /\ IF matcher # "Counselor" \/ filename = ""
          THEN /\ raised' = "None"
               /\ UNCHANGED document
          ELSE IF Len(print_meteor_arguments) # Len(print_meteor_parameters)
                  \/ ~smoother.built
                  \/ out.returned = "None"
          THEN /\ document' = [written |-> TRUE, records |-> <<>>]
               /\ raised' = "TypeError"
          ELSE /\ document' = [written |-> TRUE, records |-> out.returned]
               /\ raised' = "None"
       /\ UNCHANGED <<matcher, catalogue, sensor_data, projection, time,
                      smoother, inputs, magnitude_smoother, returned,
                      w_input, plots>>

Next ==
    \/ \E p \in Params : onParametersChanged("x0", p)
    \/ \E t \in Times : onLocationTimeChanged(t)
    \/ \E n \in 1..MaxStars : loadCatalogue(n)
    \/ \E n \in 1..MaxDots : loadSighting(n)
    \/ \E limit \in Limits : maskSensor(limit)
    \/ \E limit \in Limits : maskCatalogueDistant(limit)
    \/ \E limit \in Limits : maskCatalogueFaint(limit)
    \/ resetValid
    \/ pair
    \/ \E maxiter \in 0..MaxIter : minimize(maxiter)

Spec == Init /\ [][Next]_vars

(***************************************************************************)
(* The session restricted to loading, masking, resetting and pairing,      *)
(* with the last handler recorded                                          *)
(***************************************************************************)

InitMasks == InitSession("init", Untracked, FALSE)

NextMasks ==
    \/ \E n \in 1..MaxStars : loadCatalogue(n)
    \/ \E n \in 1..MaxDots : loadSighting(n)
    \/ \E limit \in Limits : maskSensor(limit)
    \/ \E limit \in Limits : maskCatalogueDistant(limit)
    \/ \E limit \in Limits : maskCatalogueFaint(limit)
    \/ resetValid
    \/ pair

SpecMasks == InitMasks /\ [][NextMasks]_vars

(***************************************************************************)
(* The session's projection constants: the widgets edited, exported,       *)
(* imported and fitted, over the largest catalogue and sighting            *)
(***************************************************************************)

(* the widgets the user edits *)
Edited == {"x0", "a0"}

(* the files an import may be pointed at, besides the exported one: none,  *)
(* one that is not YAML, complete records, and records that lack the       *)
(* first, the second or the last parameter                                 *)
ImportFiles ==
    {NoFile, Unparsable}
    \cup {ConstantsFile(x) : x \in Params}
    \cup {Without(ConstantsFile(MaxShift), n) : n \in {"x0", "y0", "E"}}

InitParams ==
    /\ InitSession("init", Untracked, FALSE)
    /\ Count(catalogue) = MaxStars
    /\ Count(sensor_data.stars) = MaxDots

NextParams ==
    \/ \E name \in Edited, v \in Params : onParametersChanged(name, v)
    \/ \E data \in ImportFiles \cup {exported} :
           importProjectionConstants(data)
    \/ exportProjectionConstants
    \/ \E maxiter \in 0..MaxIter : minimize(maxiter)

SpecParams == InitParams /\ [][NextParams]_vars

(***************************************************************************)
(* The session's smoothers: pairing, then the handlers that change the     *)
(* projection, the bandwidth or the time, the magnitude smoother followed  *)
(***************************************************************************)

InitSmoother == InitSession("init", NoSmoother, FALSE)

NextSmoother ==
    \/ pair
    \/ \E p \in Params : onParametersChanged("x0", p)
    \/ \E s \in 0..MaxSlider, action \in {0, 7} : onBandwidthChanged(s, action)
    \/ \E t \in Times : onLocationTimeChanged(t)
    \/ \E maxiter \in 0..MaxIter : minimize(maxiter)
    \/ \E x \in Params : importProjectionConstants(ConstantsFile(x))

SpecSmoother == InitSmoother /\ [][NextSmoother]_vars

(***************************************************************************)
(* The session that exports its corrected meteor                           *)
(***************************************************************************)

InitExport == InitSession("off", Untracked, FALSE)

NextExport ==
    \/ \E p \in Params : onParametersChanged("x0", p)
    \/ \E n \in 1..MaxStars : loadCatalogue(n)
    \/ \E n \in 1..MaxDots : loadSighting(n)
    \/ \E t \in Times : onLocationTimeChanged(t)
    \/ \E limit \in Limits : maskCatalogueFaint(limit)
    \/ resetValid
    \/ pair
    \/ \E filename \in FileNames : exportCorrectedMeteor(filename)

SpecExport == InitExport /\ [][NextExport]_vars

(***************************************************************************)
(* The session with its sky plots followed                                 *)
(***************************************************************************)

InitPlots == InitSession("off", Untracked, TRUE)

NextPlots ==
    \/ \E p \in Params : onParametersChanged("x0", p)
    \/ \E t \in Times : onLocationTimeChanged(t)
    \/ \E n \in 1..MaxStars : loadCatalogue(n)
    \/ \E limit \in Limits : maskCatalogueFaint(limit)
    \/ resetValid
    \/ pair

SpecPlots == InitPlots /\ [][NextPlots]_vars

(***************************************************************************)
(* A Counselor on its own: constructed by a pairing, then driven through   *)
(* mask_catalogue, mask_sensor_data, reset_mask and pair with any mask     *)
(***************************************************************************)

BoolSeqs(n) == [1..n -> BOOLEAN]

(* a Counselor over at most pairs stars and as many dots *)
InitPaired(pairs) ==
    \E n \in 1..pairs, k \in 1..pairs :
      \E cm \in BoolSeqs(n), dm \in BoolSeqs(k) :
        LET cat == SetMask(Matcher_load_catalogue(n), cm)
            sd == [SensorData_load(k) EXCEPT
                       !.stars = SetMask(SensorData_load(k).stars, dm)]
        IN /\ \E x \in Params :
                  widgets = [m \in NameSet |-> Get(ConstantsFile(x).params, m)]
           /\ projection = updateProjection(widgets)
           /\ blocked = FALSE
           /\ exported = NoFile
           /\ hs_bandwidth \in 0..MaxSlider
           /\ magnitude_smoother = Untracked
           /\ returned = <<>>
           /\ document = NoDocument
           /\ w_input = TRUE
           /\ plots = Unplotted
           /\ time \in Times
           /\ LET r == Matchmaker_pair(cat, sd, projection, time)
              IN /\ r.ok
                 /\ matcher = r.matcher
                 /\ catalogue = r.catalogue
                 /\ sensor_data = r.sensor_data
                 /\ smoother = r.smoother
           /\ handler = "init"
           /\ raised = "None"

(* one pair more than the session's catalogue, so that a cull can leave    *)
(* two pairs with a gap between them                                       *)
MaxPairs == MaxStars + 1

InitCounselor == InitPaired(MaxPairs)

call_mask_catalogue(mask) ==
    LET r == Counselor_mask_catalogue(catalogue, sensor_data, mask)
    IN /\ catalogue' = r.catalogue
       /\ sensor_data' = r.sensor_data
       /\ raised' = r.raised
       /\ handler' = Log("mask_catalogue")
       /\ UNCHANGED <<matcher, projection, time, smoother, inputs,
                      magnitude_smoother, returned, document, w_input,
                      plots>>

call_mask_sensor_data(mask) ==
    LET r == Counselor_mask_sensor_data(catalogue, sensor_data, mask)
    IN /\ catalogue' = r.catalogue
       /\ sensor_data' = r.sensor_data
       /\ raised' = r.raised
       /\ handler' = Log("mask_sensor_data")
       /\ UNCHANGED <<matcher, projection, time, smoother, inputs,
                      magnitude_smoother, returned, document, w_input,
                      plots>>

call_reset_mask ==
    LET r == Matcher_reset_mask(catalogue, sensor_data)
    IN /\ catalogue' = r.catalogue
       /\ sensor_data' = r.sensor_data
       /\ raised' = "None"
       /\ handler' = Log("reset_mask")
       /\ UNCHANGED <<matcher, projection, time, smoother, inputs,
                      magnitude_smoother, returned, document, w_input,
                      plots>>

call_pair ==
    LET r == Counselor_pair(catalogue, sensor_data, smoother)
    IN /\ matcher' = r.matcher
       /\ catalogue' = r.catalogue
       /\ sensor_data' = r.sensor_data
       /\ smoother' = r.smoother
       /\ raised' = "None"
       /\ handler' = Log("pair")
       /\ UNCHANGED <<projection, time, inputs, magnitude_smoother,
                      returned, document, w_input, plots>>

call_errors(masked) ==
    LET r == Counselor_errors(catalogue, sensor_data, projection, time,
                              masked)
    IN /\ sensor_data' = r.sensor_data
       /\ IF r.ok THEN returned' = r.errors /\ raised' = "None"
          ELSE raised' = "ValueError" /\ UNCHANGED returned
       /\ handler' = Log("errors")
       /\ UNCHANGED <<matcher, catalogue, projection, time, smoother,
                      inputs, magnitude_smoother, document, w_input, plots>>

call_errors_inverse(masked) ==
    LET r == Counselor_errors_inverse(catalogue, sensor_data, projection,
                                      time, masked)
    IN /\ sensor_data' = r.sensor_data
       /\ IF r.ok THEN returned' = r.errors /\ raised' = "None"
          ELSE raised' = "ValueError" /\ UNCHANGED returned
       /\ handler' = Log("errors_inverse")
       /\ UNCHANGED <<matcher, catalogue, projection, time, smoother,
                      inputs, magnitude_smoother, document, w_input, plots>>

call_update_smoother ==
    LET u == Counselor_update_smoother(catalogue, sensor_data, projection,
                                       time, bandwidth(hs_bandwidth))
    IN /\ IF u.ok THEN smoother' = u.smoother /\ raised' = "None"
          ELSE raised' = "ValueError" /\ UNCHANGED smoother
       /\ handler' = Log("update_smoother")
       /\ UNCHANGED <<matcher, catalogue, sensor_data, projection, time,
                      inputs, magnitude_smoother, returned, document,
                      w_input, plots>>

(* calling the smoother of a Counselor that has none is a TypeError *)
call_correct_meteor ==
    /\ IF smoother.built
       THEN /\ returned' = Counselor_correct_meteor(sensor_data, projection,
                                                    smoother)
            /\ raised' = "None"
       ELSE raised' = "TypeError" /\ UNCHANGED returned
    /\ handler' = Log("correct_meteor")
    /\ UNCHANGED <<matcher, catalogue, sensor_data, projection, time,
                   smoother, inputs, magnitude_smoother, document, w_input,
                   plots>>

call_project_meteor ==
    /\ returned' = Counselor_project_meteor(sensor_data, projection)
    /\ raised' = "None"
    /\ handler' = Log("project_meteor")
    /\ UNCHANGED <<matcher, catalogue, sensor_data, projection, time,
                   smoother, inputs, magnitude_smoother, document, w_input,
                   plots>>

call_grid(resolution) ==
    /\ IF smoother.built
       THEN /\ returned' = Counselor_grid(smoother, resolution)
            /\ raised' = "None"
       ELSE raised' = "TypeError" /\ UNCHANGED returned
    /\ handler' = Log("grid")
    /\ UNCHANGED <<matcher, catalogue, sensor_data, projection, time,
                   smoother, inputs, magnitude_smoother, document, w_input,
                   plots>>

(* grid resolutions *)
Resolutions == {2, 3}

NextCounselor ==
    \/ \E mask \in BoolSeqs(Count(catalogue)) : call_mask_catalogue(mask)
    \/ \E mask \in BoolSeqs(Count(catalogue)) : call_mask_sensor_data(mask)
    \/ call_reset_mask
    \/ call_pair
    \/ \E limit \in Limits : maskCatalogueFaint(limit)

SpecCounselor == InitCounselor /\ [][NextCounselor]_vars

(***************************************************************************)
(* A Counselor asked for its errors, its smoother and its corrections      *)
(***************************************************************************)

NextCalls ==
    \/ \E mask \in BoolSeqs(Count(catalogue)) : call_mask_catalogue(mask)
    \/ \E masked \in BOOLEAN : call_errors(masked)
    \/ \E masked \in BOOLEAN : call_errors_inverse(masked)
    \/ call_update_smoother
    \/ call_project_meteor
    \/ call_correct_meteor
    \/ \E resolution \in Resolutions : call_grid(resolution)

InitCalls == InitPaired(MaxStars)

SpecCalls == InitCalls /\ [][NextCalls]_vars

(***************************************************************************)
(* Properties                                                              *)
(***************************************************************************)

Paired == matcher = "Counselor"

Stars == sensor_data.stars

MaskHandlers == {"maskSensor", "maskCatalogueDistant", "maskCatalogueFaint"}

(* C1: for a Counselor, in every state reached by mask_catalogue,          *)
(* mask_sensor_data, reset_mask and pair calls, the number of valid        *)
(* catalogue entries equals the number of valid sensor dots.               *)
C1_ValidCountsEqual ==
    Paired => CountValid(catalogue) = CountValid(Stars)

C1_Witness ==
    /\ Paired
    /\ handler = "mask_catalogue"
    /\ CountValid(catalogue) = 1
    /\ Count(catalogue) = 2

(* C2: the matcher starts as a Matchmaker, becomes a Counselor only by a   *)
(* pair step, and once a Counselor stays one whatever handler runs.        *)
C2_Lifecycle ==
    /\ matcher = "Matchmaker"
    /\ [][/\ Paired => matcher' = "Counselor"
          /\ matcher' # matcher => pair]_vars

C2_Witness ==
    /\ Paired
    /\ raised = "None"
    /\ smoother.built

(* C3: once paired, every step leaves the catalogue and the dots with the  *)
(* same number of entries, entry i of one paired with entry i of the       *)
(* other: a step keeps the same indices of both.                           *)
C3_CorrespondenceImmutable ==
    [][/\ matcher' = "Counselor" =>
              Count(catalogue') = Count(sensor_data'.stars)
       /\ Paired =>
              \E keep \in BoolSeqs(Count(catalogue)) :
                  /\ catalogue'.rows = Compress(catalogue.rows, keep)
                  /\ sensor_data'.stars.rows = Compress(Stars.rows, keep)]_vars

(* C4: a Counselor is constructed only from collections with equal valid   *)
(* counts, and no Counselor exists with unequal valid counts.              *)
C4_MismatchRejected ==
    /\ Counselor_init(catalogue, sensor_data).ok =>
           CountValid(catalogue) = CountValid(Stars)
    /\ Paired => CountValid(catalogue) = CountValid(Stars)

(* C5: a pairing rejected for a correspondence mismatch changes nothing:   *)
(* the matcher, the catalogue, the sensor data, their masks and the        *)
(* smoother are as before.                                                 *)
C5_RejectedPairChangesNothing ==
    [][pair /\ raised' = "AssertionError" =>
           UNCHANGED <<matcher, catalogue, sensor_data, smoother,
                       projection, time>>]_vars

C5_Witness ==
    /\ raised = "AssertionError"
    /\ matcher = "Matchmaker"
    /\ CountValid(catalogue) # CountValid(Stars)

(* C6: for a Counselor, after mask_catalogue(m) or mask_sensor_data(m)     *)
(* entry i of the catalogue is valid iff dot i is valid, and               *)
(* mask_sensor_data(m) leaves the state mask_catalogue(m) leaves, also     *)
(* over an earlier mask.                                                   *)
C6_MaskedIdentically ==
    [][handler' \in {"mask_catalogue", "mask_sensor_data"} =>
         /\ DOMAIN catalogue'.mask = DOMAIN sensor_data'.stars.mask
         /\ \A i \in DOMAIN catalogue'.mask :
                catalogue'.mask[i] <=> sensor_data'.stars.mask[i]
         /\ \E m \in BoolSeqs(Count(catalogue)) :
                LET r == Counselor_mask_catalogue(catalogue, sensor_data, m)
                IN /\ catalogue' = r.catalogue
                   /\ sensor_data' = r.sensor_data
                   /\ raised' = r.raised]_vars

C6_Witness ==
    /\ Paired
    /\ handler = "mask_sensor_data"
    /\ Count(catalogue) = 2
    /\ CountValid(catalogue) = 0
    /\ CountValid(Stars) = 0

C8_MaskingKeepsEntries ==
    [][handler' \in MaskHandlers =>
         /\ catalogue'.rows = catalogue.rows
         /\ sensor_data'.stars.rows = Stars.rows
         /\ sensor_data'.meteor = sensor_data.meteor
         /\ Len(catalogue'.mask) = Len(catalogue.mask)
         /\ Len(sensor_data'.stars.mask) = Len(Stars.mask)]_vars

C8_Witness ==
    /\ handler \in MaskHandlers
    /\ Paired
    /\ Count(catalogue) = 2
    /\ CountValid(catalogue) = 1
    /\ CountValid(Stars) = 1

(* C9: a mask call only reduces validity: an entry hidden before           *)
(* maskSensor, maskCatalogueDistant or maskCatalogueFaint is hidden after  *)
(* it, in the catalogue and in the sensor dots.                            *)
C9_MasksCombine ==
    [][handler' \in MaskHandlers =>
         /\ \A i \in DOMAIN catalogue.mask :
                ~catalogue.mask[i] =>
                    i \in DOMAIN catalogue'.mask /\ ~catalogue'.mask[i]
         /\ \A i \in DOMAIN Stars.mask :
                ~Stars.mask[i] =>
                    i \in DOMAIN sensor_data'.stars.mask
                    /\ ~sensor_data'.stars.mask[i]]_vars

(* after maskCatalogueFaint a bright star is hidden next to a valid faint  *)
(* one: it was hidden by an earlier mask, and a dot is hidden as well      *)
C9_Witness ==
    /\ handler = "maskCatalogueFaint"
    /\ \E i, j \in DOMAIN catalogue.mask :
           /\ ~catalogue.mask[i] /\ catalogue.rows[i].vmag = 1
           /\ catalogue.mask[j] /\ catalogue.rows[j].vmag = 2
    /\ CountValid(Stars) < Count(Stars)

(* C10: after resetValid every entry of the catalogue and of the sensor    *)
(* dots is valid, and the entries are those before the call: what a cull   *)
(* removed is not restored.                                                *)
C10_ResetRestoresValidity ==
    [][handler' = "resetValid" =>
         /\ CountValid(catalogue') = Count(catalogue')
         /\ CountValid(sensor_data'.stars) = Count(sensor_data'.stars)
         /\ catalogue'.rows = catalogue.rows
         /\ sensor_data'.stars.rows = Stars.rows]_vars

(* reset after a cull: the one dot left is the second of its file *)
C10_Witness ==
    /\ handler = "resetValid"
    /\ Paired
    /\ Count(catalogue) = 1
    /\ Stars.rows = <<SightingFile(2).dots[2]>>
    /\ CountValid(catalogue) = 1
    /\ CountValid(Stars) = 1

(* new is old without the entries the mask hides, in the order of old *)
IsOrderedSelection(new, old, mask) ==
    \E f \in [1..Len(new) -> 1..Len(old)] :
        /\ \A k \in 1..Len(new) : mask[f[k]] /\ new[k] = old[f[k]]
        /\ \A k, l \in 1..Len(new) : k < l => f[k] < f[l]

(* C11: Counselor.pair leaves in each collection exactly the entries that  *)
(* were valid before the call: the count is the count_valid of before,     *)
(* every entry left is valid, the entries left keep their order, and the   *)
(* catalogue and the dots have the same count.                             *)
C11_CullKeepsValid ==
    [][handler' = "pair" =>
         /\ Count(catalogue') = CountValid(catalogue)
         /\ Count(sensor_data'.stars) = CountValid(Stars)
         /\ CountValid(catalogue') = Count(catalogue')
         /\ CountValid(sensor_data'.stars) = Count(sensor_data'.stars)
         /\ IsOrderedSelection(catalogue'.rows, catalogue.rows,
                               catalogue.mask)
         /\ IsOrderedSelection(sensor_data'.stars.rows, Stars.rows,
                               Stars.mask)
         /\ Count(catalogue') = Count(sensor_data'.stars)]_vars

(* after pair two of three pairs are left: the first and the third dot of  *)
(* the file, in that order                                                 *)
C11_Witness ==
    /\ handler = "pair"
    /\ Paired
    /\ Count(catalogue) = 2
    /\ Stars.rows = <<SightingFile(3).dots[1], SightingFile(3).dots[3]>>
    /\ CountValid(Stars) = 2

(* the dots as the projection places them *)
Projected(sd, proj) ==
    [i \in 1..Len(sd.stars.rows) |-> Project(sd.stars.rows[i], proj)]

InReach(sm, x) ==
    \E j \in 1..Len(sm.obs) :
        Abs(x - sm.obs[j]) \div sm.bandwidth <= MaxExponent

(* C19: a batch of queries to the built smoother, the meteor's samples in  *)
(* correct_meteor or the nodes in grid, never raises; a query where every  *)
(* kernel weight is zero gets an invalid result, and every other query of  *)
(* the same batch gets a valid one.                                        *)
C19_ZeroWeightsPerQuery ==
    [][handler' \in {"correct_meteor", "grid"} /\ smoother.built =>
         /\ raised' = "None"
         /\ \E xs \in {[i \in 1..Len(sensor_data.meteor) |->
                            proj_to_disk(Project(sensor_data.meteor[i],
                                                 projection))]}
                      \cup {masked_grid(r) : r \in Resolutions} :
                /\ handler' = "correct_meteor" =>
                       Len(xs) = Len(sensor_data.meteor)
                /\ Len(returned') = Len(xs)
                /\ \A i \in 1..Len(xs) :
                       returned'[i].valid <=> InReach(smoother, xs[i])]_vars

(* a corrected track whose first sample has a correction and whose second  *)
(* sample, out of reach of every pair, has none                            *)
C19_Witness ==
    /\ handler = "correct_meteor"
    /\ smoother.built
    /\ Len(smoother.obs) > 0
    /\ Len(returned) = 2
    /\ returned[1].valid
    /\ ~returned[2].valid

(* C20: in Paired mode maskCatalogueFaint with a magnitude limit that      *)
(* hides k catalogue stars that were valid lowers count_valid by exactly k *)
(* in the catalogue and in the sensor dots.                                *)
C20_FaintMaskDropsBoth ==
    [][handler' = "maskCatalogueFaint" /\ Paired =>
         \E limit \in Limits :
             LET k == Cardinality({i \in DOMAIN catalogue.mask :
                          catalogue.mask[i]
                          /\ catalogue.rows[i].vmag > limit})
             IN /\ CountValid(catalogue') = CountValid(catalogue) - k
                /\ CountValid(sensor_data'.stars) = CountValid(Stars) - k
                /\ catalogue'.mask =
                       [i \in DOMAIN catalogue.mask |->
                           catalogue.mask[i]
                           /\ ~(catalogue.rows[i].vmag > limit)]]_vars

(* after maskCatalogueFaint of three pairs the one of magnitude 1 is left  *)
(* valid on both sides: two were hidden                                    *)
C20_Witness ==
    /\ handler = "maskCatalogueFaint"
    /\ Paired
    /\ Count(catalogue) = 3
    /\ \A i \in 1..3 : catalogue.mask[i] <=> catalogue.rows[i].vmag = 1
    /\ CountValid(catalogue) = 1
    /\ CountValid(Stars) = 1

(* the smoothers a rebuild from the current state gives *)
FreshPosition ==
    Counselor_update_smoother(catalogue, sensor_data, projection, time,
                              bandwidth(hs_bandwidth)).smoother

FreshMagnitude ==
    Counselor_update_magnitude_smoother(catalogue, sensor_data, projection,
                                        bandwidth(hs_bandwidth)).smoother

RebuildHandlers ==
    {"onParametersChanged", "onBandwidthChanged", "minimize",
     "importProjectionConstants", "pair"}

(* C12: when onParametersChanged, onBandwidthChanged, minimize,            *)
(* importProjectionConstants or pair has completed on a paired session,    *)
(* the position smoother and the magnitude smoother are both the ones      *)
(* built from the current projection, bandwidth and paired residuals.      *)
C12_SmoothersRebuilt ==
    handler \in RebuildHandlers /\ Paired /\ raised = "None" =>
        /\ smoother = FreshPosition
        /\ magnitude_smoother = FreshMagnitude

ParameterHandlers ==
    {"onParametersChanged", "importProjectionConstants", "minimize"}

(* C13: when a handler that sets parameter widgets has completed, a single *)
(* widget change, an import or the write-back of minimize, the projection  *)
(* is the one built from the twelve values the widgets hold then.          *)
C13_ProjectionFromWidgets ==
    handler \in ParameterHandlers /\ raised = "None" =>
        projection = updateProjection(widgets)

(* after an edit of a0 to 1 degree the projection holds a0 in radians and  *)
(* the x0 of the widget                                                    *)
C13_Witness ==
    /\ handler = "onParametersChanged"
    /\ raised = "None"
    /\ widgets["a0"] = 1
    /\ projection.a0 = radians(1)
    /\ projection.x0 = widgets["x0"]
    /\ projection.E = radians(widgets["E"])

(* the widgets hold the whole of a well-formed constants file *)
Loaded(w) ==
    \E data \in ImportFiles \cup {exported} :
        /\ data.kind = "yaml"
        /\ FirstMissing(data.params) > Len(ParamNames)
        /\ w = [n \in NameSet |-> Get(data.params, n)]

(* C15: an import that does not load a whole well-formed record, because   *)
(* the file is missing, is not YAML or lacks a parameter, leaves the       *)
(* twelve widget values and the projection as they were.                   *)
C15_NoPartialLoad ==
    [][handler' = "importProjectionConstants" /\ ~Loaded(widgets') =>
         /\ widgets' = widgets
         /\ projection' = projection]_vars

(* C16: the exported file holds the twelve named parameters x0, y0, a0, A, *)
(* F, V, S, D, P, Q, eps, E with the widgets' values and nothing else, and *)
(* importing the exported file sets every widget to the value written      *)
(* under its name.                                                         *)
C16_ExportImportRoundTrip ==
    [][/\ exportProjectionConstants =>
            /\ Len(exported'.params) = Len(ParamNames)
            /\ \A n \in NameSet :
                   /\ Has(exported'.params, n)
                   /\ Get(exported'.params, n) = widgets[n]
       /\ importProjectionConstants(exported) /\ exported.kind = "yaml" =>
            /\ raised' = "None"
            /\ \A n \in NameSet :
                   /\ Has(exported.params, n)
                   /\ widgets'[n] = Get(exported.params, n)]_vars

(* an import has brought back an exported a0 of 1 degree, a value that no  *)
(* other file holds                                                        *)
C16_Witness ==
    /\ handler = "importProjectionConstants"
    /\ raised = "None"
    /\ exported.kind = "yaml"
    /\ Get(exported.params, "a0") = 1
    /\ widgets = [n \in NameSet |-> Get(exported.params, n)]

(* the parameters held as angles *)
Angles == {"a0", "F", "eps", "E"}

C18_BoundedNoRaise ==
    [][\A maxiter \in 0..MaxIter :
          minimize(maxiter) =>
              LET fit == Matcher_minimize(matcher, catalogue, sensor_data,
                             time, getConstantsTuple(widgets), maxiter)
              IN fit.ok =>
                     /\ fit.nit <= maxiter
                     /\ Len(fit.x) = Len(ParamNames)
                     /\ ~fit.success => fit.nit = maxiter
                     /\ raised' = "None"
                     /\ getConstantsTuple(widgets') = fit.x]_vars

(* after minimize the constants still have a better neighbour: the         *)
(* optimizer ran out of iterations and its vector was written back         *)
C18_Witness ==
    /\ handler = "minimize"
    /\ raised = "None"
    /\ ~Matcher_minimize(matcher, catalogue, sensor_data, time,
                         getConstantsTuple(widgets), 0).success
    /\ projection = updateProjection(widgets)

ProjectedMeteor(sd, proj) ==
    [i \in 1..Len(sd.meteor) |-> Project(sd.meteor[i], proj)]

DiskMeteor(sd, proj) ==
    [i \in 1..Len(sd.meteor) |-> proj_to_disk(Project(sd.meteor[i], proj))]

(* C22: correct_meteor is the composition project, to the disk, add the    *)
(* smoother's correction at that point of the disk, back to the sky, on    *)
(* the points project_meteor uses; where the correction is zero at every   *)
(* sample of the track, it returns the positions project_meteor returns.   *)
C22_CorrectMeteorComposition ==
    [][handler' = "correct_meteor" /\ smoother.built =>
         LET raw == Counselor_project_meteor(sensor_data, projection)
             xy == DiskMeteor(sensor_data, projection)
             dxdy == KernelSmoother_call(smoother, xy)
         IN /\ Len(returned') = Len(sensor_data.meteor)
            /\ \A i \in 1..Len(xy) :
                   /\ raw[i] = disk_to_altaz(xy[i])
                   /\ returned'[i].valid = dxdy[i].valid
                   /\ dxdy[i].valid =>
                          returned'[i].value =
                              disk_to_altaz(xy[i] + dxdy[i].value)
            /\ (\A i \in 1..Len(xy) :
                    dxdy[i].valid /\ dxdy[i].value = 0)
                   => \A i \in 1..Len(xy) :
                          returned'[i].valid /\ returned'[i].value = raw[i]
       ]_vars

(* a track corrected by a smoother whose pairs lie dot on star: the        *)
(* correction is zero at both samples                                      *)
C22_Witness ==
    /\ handler = "correct_meteor"
    /\ smoother.built
    /\ Len(smoother.obs) = 2
    /\ \A j \in 1..2 : smoother.res[j] = 0
    /\ Len(returned) = 2
    /\ \A i \in 1..2 :
           /\ returned[i].valid
           /\ returned[i].value =
                  Counselor_project_meteor(sensor_data, projection)[i]

C23_MeteorOutputExported ==
    [][(\E filename \in FileNames \ {""} : exportCorrectedMeteor(filename))
       /\ Paired /\ smoother.built =>
           LET raw == Counselor_project_meteor(sensor_data, projection)
               corr == Counselor_correct_meteor(sensor_data, projection,
                                                smoother)
           IN /\ raised' = "None"
              /\ document'.written
              /\ Len(document'.records) = Len(sensor_data.meteor)
              /\ \A i \in 1..Len(sensor_data.meteor) :
                     /\ document'.records[i].ev_r = raw[i]
                     /\ document'.records[i].ev = corr[i]
                     /\ document'.records[i].mag = sensor_data.meteor[i].m
      ]_vars

Fresh(plot) ==
    /\ plot.valid_stars =>
           plot.scatter_stars = StarPositions(catalogue, time)
    /\ plot.valid_dots =>
           plot.scatter_dots = DotPositions(sensor_data, projection)
    /\ plot.valid_meteor =>
           plot.scatter_meteor = MeteorPositions(sensor_data, projection)

(* C25: no stale derived plot data: when a handler changes an input, every *)
(* plot layer derived from that input is invalidated before updatePlots    *)
(* runs, so a layer of a sky plot that is flagged valid was drawn from the *)
(* catalogue, masks, time, sensor data and projection the session has now. *)
C25_NoStalePlots ==
    plots # Unplotted =>
        /\ Fresh(plots.positionSkyPlot)
        /\ Fresh(plots.magnitudeSkyPlot)

(* C27: temporary locks are always released: after importing constants or  *)
(* minimizing, whether the handler succeeded or hit an error, the          *)
(* valueChanged signals of the twelve parameter widgets are unblocked and  *)
(* the input panel w_input is enabled.                                     *)
C27_LocksReleased ==
    handler \in {"importProjectionConstants", "minimize"} =>
        /\ ~blocked
        /\ w_input

====
